---- MODULE Spec2Model ----
(***************************************************************************)
(* A model of sudoku-rs: the constrained grid (src/src/input.rs), the      *)
(* backtracking solver (src/src/solver.rs) and the flow of main            *)
(* (src/src/main.rs): from_file, then Solver::new(grid).solve().           *)
(*                                                                         *)
(* Two arithmetic expressions of input.rs depend on the build profile:     *)
(* `value - 1` on a u8 and `1 << bit` on a u16.  With overflow checks (the *)
(* dev profile) an overflow panics; without them (the release profile) the *)
(* subtraction wraps modulo 256 and the shift amount is taken modulo 16.   *)
(* The profile is the variable overflow_checks, chosen in the initial      *)
(* state.                                                                  *)
(***************************************************************************)
EXTENDS Integers, Sequences, FiniteSets, TLC

VARIABLES
    input,            \* the text of the puzzle file, a sequence of characters
    overflow_checks,  \* TRUE: arithmetic overflow panics; FALSE: it wraps
    pc,               \* where the program is
    grid,             \* the SudokuGrid: cells, rows, cols, squares
    initial,          \* the grid as it was moved into Solver::new
    choices,          \* solve's stack of <<cell, value>> choices
    result,           \* what solve returned: "Some", "None", or "Pending"
    call,             \* the last set/unset call made on the grid by a caller
    pre,              \* the grid before that call
    ncalls            \* how many set/unset calls the caller has made

vars == <<input, overflow_checks, pc, grid, initial, choices, result, call, pre, ncalls>>

(***************************************************************************)
(* Bounds of the model.                                                    *)
(***************************************************************************)
MaxBlankRows == 4   \* puzzle texts keep the first 9 - k rows of a solved grid, k <= MaxBlankRows
MaxEditPos == 6     \* one of the first MaxEditPos characters of a text may be replaced
MaxEditDigit == 3   \* ... by an empty marker or by a digit 1..MaxEditDigit
MaxCells == 3       \* cells a caller of set/unset addresses
MaxDigit == 2       \* digits a caller of set passes
MaxCalls == 3       \* calls of set/unset a caller makes
MaxTextLen == 3     \* length of the short texts given to the loader
MaxLines == 10      \* lines of the long texts given to the loader
MaxLineLen == 10    \* characters of the long lines given to the loader

N == 9

Idx == 0 .. (N - 1)

Min(a, b) == IF a < b THEN a ELSE b

(***************************************************************************)
(* BitMask(u16), input.rs lines 5-24.                                      *)
(***************************************************************************)
BitMask_new == 0

\* `value - 1` on u8 without overflow checks
WrappingSub(a, b) == (a - b + 256) % 256

\* `1 << bit` on u16 without overflow checks: the shift amount is masked
Shl1(bit) == 2 ^ (bit % 16)

BitMask_is_set(m, bit) == (m \div Shl1(bit)) % 2 = 1

BitMask_set(m, bit) == IF BitMask_is_set(m, bit) THEN m ELSE m + Shl1(bit)

BitMask_clear(m, bit) == IF BitMask_is_set(m, bit) THEN m - Shl1(bit) ELSE m

\* `value - 1` followed by `1 << (value - 1)` panics under overflow checks
BitPanics(value) == overflow_checks /\ (value < 1 \/ value - 1 >= 16)

(***************************************************************************)
(* SudokuGrid, input.rs lines 33-75.                                       *)
(***************************************************************************)
EmptyGrid ==
    [cells |-> [r \in Idx |-> [c \in Idx |-> 0]],
     rows |-> [i \in Idx |-> BitMask_new],
     cols |-> [i \in Idx |-> BitMask_new],
     squares |-> [i \in Idx |-> BitMask_new]]

at(g, row, col) == g.cells[row][col]

SquareOf(row, col) == (row \div 3) * 3 + (col \div 3)

\* a slip: set without the check of the square
set_NoSquareCheck(g, row, col, value) ==
    LET square == SquareOf(row, col)
        bit == WrappingSub(value, 1)
    IN  IF BitPanics(value)
        THEN [grid |-> g, ret |-> FALSE, panic |-> TRUE]
        ELSE IF \/ BitMask_is_set(g.rows[row], bit)
                \/ BitMask_is_set(g.cols[col], bit)
        THEN [grid |-> g, ret |-> FALSE, panic |-> FALSE]
        ELSE [grid |->
                [cells |-> [g.cells EXCEPT ![row][col] = value],
                 rows |-> [g.rows EXCEPT ![row] = BitMask_set(@, bit)],
                 cols |-> [g.cols EXCEPT ![col] = BitMask_set(@, bit)],
                 squares |-> [g.squares EXCEPT ![square] = BitMask_set(@, bit)]],
              ret |-> TRUE, panic |-> FALSE]

\* the result of set: the grid after it, the returned bool, and whether it panicked
set(g, row, col, value) ==
    LET square == SquareOf(row, col)
        bit == WrappingSub(value, 1)
    IN  IF BitPanics(value)
        THEN [grid |-> g, ret |-> FALSE, panic |-> TRUE]
        ELSE IF \/ BitMask_is_set(g.rows[row], bit)
                \/ BitMask_is_set(g.cols[col], bit)
                \/ BitMask_is_set(g.squares[square], bit)
        THEN [grid |-> g, ret |-> FALSE, panic |-> FALSE]
        ELSE [grid |->
                [cells |-> [g.cells EXCEPT ![row][col] = value],
                 rows |-> [g.rows EXCEPT ![row] = BitMask_set(@, bit)],
                 cols |-> [g.cols EXCEPT ![col] = BitMask_set(@, bit)],
                 squares |-> [g.squares EXCEPT ![square] = BitMask_set(@, bit)]],
              ret |-> TRUE, panic |-> FALSE]

\* a slip: unset without the clearing of the column's mask
unset_NoColClear(g, row, col) ==
    LET value == g.cells[row][col]
        square == SquareOf(row, col)
        bit == WrappingSub(value, 1)
    IN  IF BitPanics(value)
        THEN [grid |-> g, panic |-> TRUE]
        ELSE [grid |->
                [cells |-> [g.cells EXCEPT ![row][col] = 0],
                 rows |-> [g.rows EXCEPT ![row] = BitMask_clear(@, bit)],
                 cols |-> g.cols,
                 squares |-> [g.squares EXCEPT ![square] = BitMask_clear(@, bit)]],
              panic |-> FALSE]

\* a slip: unset without the clearing of the cell
unset_NoCellClear(g, row, col) ==
    LET value == g.cells[row][col]
        square == SquareOf(row, col)
        bit == WrappingSub(value, 1)
    IN  IF BitPanics(value)
        THEN [grid |-> g, panic |-> TRUE]
        ELSE [grid |->
                [cells |-> g.cells,
                 rows |-> [g.rows EXCEPT ![row] = BitMask_clear(@, bit)],
                 cols |-> [g.cols EXCEPT ![col] = BitMask_clear(@, bit)],
                 squares |-> [g.squares EXCEPT ![square] = BitMask_clear(@, bit)]],
              panic |-> FALSE]

\* a slip: unset clearing cells[col][row]
unset_Transposed(g, row, col) ==
    LET value == g.cells[row][col]
        square == SquareOf(row, col)
        bit == WrappingSub(value, 1)
    IN  IF BitPanics(value)
        THEN [grid |-> g, panic |-> TRUE]
        ELSE [grid |->
                [cells |-> [g.cells EXCEPT ![col][row] = 0],
                 rows |-> [g.rows EXCEPT ![row] = BitMask_clear(@, bit)],
                 cols |-> [g.cols EXCEPT ![col] = BitMask_clear(@, bit)],
                 squares |-> [g.squares EXCEPT ![square] = BitMask_clear(@, bit)]],
              panic |-> FALSE]

\* the result of unset: the grid after it and whether it panicked
unset(g, row, col) ==
    LET value == g.cells[row][col]
        square == SquareOf(row, col)
        bit == WrappingSub(value, 1)
    IN  IF BitPanics(value)
        THEN [grid |-> g, panic |-> TRUE]
        ELSE [grid |->
                [cells |-> [g.cells EXCEPT ![row][col] = 0],
                 rows |-> [g.rows EXCEPT ![row] = BitMask_clear(@, bit)],
                 cols |-> [g.cols EXCEPT ![col] = BitMask_clear(@, bit)],
                 squares |-> [g.squares EXCEPT ![square] = BitMask_clear(@, bit)]],
              panic |-> FALSE]

(***************************************************************************)
(* SudokuGrid::from_file, input.rs lines 96-131.  The text is a sequence   *)
(* of one-character strings.                                               *)
(***************************************************************************)
DigitChars == <<"1", "2", "3", "4", "5", "6", "7", "8", "9">>

EmptyMarkers == {".", "0", "_"}

Whitespace == {" ", "\t", "\r"}

\* char::to_digit(10) on '1'..='9'
to_digit(c) == CHOOSE d \in 1 .. 9 : DigitChars[d] = c

IsDigitChar(c) == \E d \in 1 .. 9 : DigitChars[d] = c

\* str::lines: split at "\n"; a final line ending adds no empty line
RECURSIVE lines(_)
lines(s) ==
    IF s = <<>> THEN <<>>
    ELSE LET brk == {k \in 1 .. Len(s) : s[k] = "\n"}
             k == IF brk = {} THEN Len(s) + 1
                  ELSE CHOOSE x \in brk : \A y \in brk : x <= y
         IN  <<SubSeq(s, 1, k - 1)>> \o lines(SubSeq(s, k + 1, Len(s)))

\* str::trim: drop leading and trailing whitespace
trim(s) ==
    LET keep == {k \in 1 .. Len(s) : s[k] \notin Whitespace}
    IN  IF keep = {} THEN <<>>
        ELSE SubSeq(s, CHOOSE x \in keep : \A y \in keep : x <= y,
                       CHOOSE x \in keep : \A y \in keep : x >= y)

\* the inner loop of from_file over the characters of line i, from column j
RECURSIVE LoadChars(_, _, _, _)
LoadChars(g, i, cs, j) ==
    IF j >= Len(cs) THEN [grid |-> g, status |-> "ok"]
    ELSE IF j >= 9 THEN [grid |-> g, status |-> "err"]
    ELSE LET c == cs[j + 1]
         IN  IF c \notin EmptyMarkers /\ ~IsDigitChar(c)
             THEN [grid |-> g, status |-> "err"]
             ELSE LET r == set(g, i, j, IF c \in EmptyMarkers THEN 0 ELSE to_digit(c))
                  IN  IF r.panic THEN [grid |-> g, status |-> "panic"]
                      ELSE LoadChars(r.grid, i, cs, j + 1)

\* the outer loop of from_file over the lines, from line i
RECURSIVE LoadLines(_, _, _)
LoadLines(g, ls, i) ==
    IF i >= Len(ls) THEN [grid |-> g, status |-> "ok"]
    ELSE IF i >= 9 THEN [grid |-> g, status |-> "err"]
    ELSE LET r == LoadChars(g, i, trim(ls[i + 1]), 0)
         IN  IF r.status # "ok" THEN r ELSE LoadLines(r.grid, ls, i + 1)

from_file(text) == LoadLines(EmptyGrid, lines(text), 0)

(***************************************************************************)
(* SudokuGrid::is_valid, input.rs lines 136-196.                           *)
(***************************************************************************)
\* the scan with `seen`: no digit occurs twice among the cells listed in `group`
NoRepeat(g, group) ==
    \A i, j \in 1 .. Len(group) :
        (i < j /\ at(g, group[i][1], group[i][2]) # 0)
            => at(g, group[i][1], group[i][2]) # at(g, group[j][1], group[j][2])

is_valid_row(g, row) == NoRepeat(g, [i \in 1 .. 9 |-> <<row, i - 1>>])

is_valid_col(g, col) == NoRepeat(g, [i \in 1 .. 9 |-> <<i - 1, col>>])

\* a slip: the square's first column without the `* 3`
is_valid_square_NoScale(g, square) ==
    LET start_row == (square \div 3) * 3
        start_col == square % 3
    IN  NoRepeat(g, [k \in 1 .. 9 |->
                        <<start_row + ((k - 1) \div 3), start_col + ((k - 1) % 3)>>])

is_valid_square(g, square) ==
    LET start_row == (square \div 3) * 3
        start_col == (square % 3) * 3
    IN  NoRepeat(g, [k \in 1 .. 9 |->
                        <<start_row + ((k - 1) \div 3), start_col + ((k - 1) % 3)>>])

is_valid(g) ==
    \A i \in Idx : is_valid_row(g, i) /\ is_valid_col(g, i) /\ is_valid_square(g, i)

(***************************************************************************)
(* Solver, solver.rs.                                                      *)
(***************************************************************************)
NoCell == <<>>

\* a slip: the loops over r and c nested the other way round
choose_empty_cell_ColumnMajor(g) ==
    LET empty == {k \in 0 .. 80 : at(g, k % 9, k \div 9) = 0}
        k == CHOOSE x \in empty : \A y \in empty : x <= y
    IN  IF empty = {} THEN NoCell ELSE <<k % 9, k \div 9>>

\* a slip: the scan run from (8, 8) backwards
choose_empty_cell_Reverse(g) ==
    LET empty == {k \in 0 .. 80 : at(g, k \div 9, k % 9) = 0}
        k == CHOOSE x \in empty : \A y \in empty : x >= y
    IN  IF empty = {} THEN NoCell ELSE <<k \div 9, k % 9>>

\* the first empty cell in row-major order, or NoCell
choose_empty_cell(g) ==
    LET empty == {k \in 0 .. 80 : at(g, k \div 9, k % 9) = 0}
        k == CHOOSE x \in empty : \A y \in empty : x <= y
    IN  IF empty = {} THEN NoCell ELSE <<k \div 9, k % 9>>

\* the loops of solver.rs lines 26-33 and 44-52: set(cell, value), set(cell,
\* value + 1), ... up to set(cell, last), stopping at the first that returns true;
\* chosen = 0 if none does
RECURSIVE TryRange(_, _, _, _)
TryRange(g, cell, value, last) ==
    IF value > last THEN [grid |-> g, chosen |-> 0]
    ELSE LET r == set(g, cell[1], cell[2], value)
         IN  IF r.ret THEN [grid |-> r.grid, chosen |-> value]
             ELSE TryRange(r.grid, cell, value + 1, last)

\* a slip: the range 1..9 written without its last value
TryValues_ExclusiveRange(g, cell, value) == TryRange(g, cell, value, 8)

\* a slip: backtracking starts over at 1 in place of the next value
TryValues_Restart(g, cell, value) == TryRange(g, cell, 1, 9)

\* a slip: set(cell, value) in place of set(cell, value + 1) after a pop
TryValues_SameValue(g, cell, value) ==
    TryRange(g, cell, IF value > 1 THEN value - 1 ELSE value, 9)

\* `for value in 1..=9` from 1, and `while value < 9` from the popped value + 1
TryValues(g, cell, value) == TryRange(g, cell, value, 9)

(***************************************************************************)
(* The puzzle texts the model reads.                                       *)
(***************************************************************************)
\* the example of from_file's documentation, 0 for an empty cell
ClassicPuzzle ==
    << 5,3,0, 0,7,0, 0,0,0,
       6,0,0, 1,9,5, 0,0,0,
       0,9,8, 0,0,0, 0,6,0,
       8,0,0, 0,6,0, 0,0,3,
       4,0,0, 8,0,3, 0,0,1,
       7,0,0, 0,2,0, 0,0,6,
       0,6,0, 0,0,0, 2,8,0,
       0,0,0, 4,1,9, 0,0,5,
       0,0,0, 0,8,0, 0,7,9 >>

\* its solution
ClassicSolution ==
    << 5,3,4, 6,7,8, 9,1,2,
       6,7,2, 1,9,5, 3,4,8,
       1,9,8, 3,4,2, 5,6,7,
       8,5,9, 7,6,1, 4,2,3,
       4,2,6, 8,5,3, 7,9,1,
       7,1,3, 9,2,4, 8,5,6,
       9,6,1, 5,3,7, 2,8,4,
       2,8,7, 4,1,9, 6,3,5,
       3,4,5, 2,8,6, 1,7,9 >>

\* the characters of a sequence of cell values, "_" for an empty cell
CellChars(ds) == [k \in 1 .. Len(ds) |-> IF ds[k] = 0 THEN "_" ELSE DigitChars[ds[k]]]

\* a text of lines of nine characters, "\n" between the lines
TextOf(cs) ==
    LET n == Len(cs)
        len == IF n = 0 THEN 0 ELSE n + ((n - 1) \div 9)
    IN  [k \in 1 .. len |-> IF k % 10 = 0 THEN "\n" ELSE cs[k - (k \div 10)]]

ClassicText == TextOf(CellChars(ClassicPuzzle))

SolutionChars == CellChars(ClassicSolution)

PrefixLens == {0} \cup {81 - 9 * k : k \in 0 .. Min(MaxBlankRows, 9)}

EditChars == {"_"} \cup {DigitChars[d] : d \in 1 .. Min(MaxEditDigit, 9)}

Prefixes == {SubSeq(SolutionChars, 1, n) : n \in PrefixLens}

Edits ==
    {[cs EXCEPT ![p] = ch] :
        cs \in {x \in Prefixes : x # <<>>}, p \in 1 .. Min(MaxEditPos, 9), ch \in EditChars}

Texts == {ClassicText} \cup {TextOf(cs) : cs \in Prefixes \cup Edits}

GridTexts == {<<>>, <<"_">>}

\* characters of the short texts given to the loader
LoadAlphabet == {"1", "2", "_", ".", "0", "x", "\n", " "}

ShortTexts == UNION {[1 .. n -> LoadAlphabet] : n \in 0 .. MaxTextLen}

\* one line of n digits: the first row of the solution, then over again
LineOf(n) == [k \in 1 .. n |-> SolutionChars[((k - 1) % 9) + 1]]

\* n lines of one digit each, a different digit on each of the first nine
LinesOf(n) == [k \in 1 .. 2 * n - 1 |-> IF k % 2 = 0 THEN "\n" ELSE DigitChars[((k \div 2) % 9) + 1]]

LongTexts ==
    UNION {{LineOf(n), LineOf(n) \o <<" ", "\r">>, LineOf(n) \o <<"_">>,
            <<"_">> \o LineOf(n)} : n \in 8 .. MaxLineLen}
    \cup UNION {{LinesOf(n), LinesOf(n) \o <<"\n">>, LinesOf(n) \o <<"\n", "\n">>,
                 <<".", "\n">> \o LinesOf(n)} : n \in 8 .. MaxLines}

LoadTexts == ShortTexts \cup LongTexts \cup {ClassicText}

CellList == << <<0, 0>>, <<1, 1>>, <<0, 4>>, <<4, 0>>, <<4, 4>>, <<8, 8>> >>

CallCells == {CellList[k] : k \in 1 .. Min(MaxCells, Len(CellList))}

CallDigits == 1 .. Min(MaxDigit, 9)

(***************************************************************************)
(* The state machine.                                                      *)
(***************************************************************************)
NoCall == [op |-> "none", row |-> 0, col |-> 0, value |-> 0, ret |-> FALSE]

InitWith(texts) ==
    /\ input \in texts
    /\ overflow_checks \in BOOLEAN
    /\ pc = "start"
    /\ grid = EmptyGrid
    /\ initial = EmptyGrid
    /\ choices = <<>>
    /\ result = "Pending"
    /\ call = NoCall
    /\ pre = EmptyGrid
    /\ ncalls = 0

Init == InitWith(Texts)

InitGrid == InitWith(GridTexts)

InitLoad == InitWith(LoadTexts)

\* main.rs line 21: from_file returns Ok(grid), returns Err, or panics
FromFile ==
    /\ pc = "start"
    /\ LET r == from_file(input)
       IN  /\ pc' = IF r.status = "ok" THEN "loaded" ELSE r.status
           /\ grid' = IF r.status = "ok" THEN r.grid ELSE grid
    /\ UNCHANGED <<input, overflow_checks, initial, choices, result, call, pre, ncalls>>

\* input.rs lines 97-98: the file cannot be read
ReadFails ==
    /\ pc = "start"
    /\ pc' = "unreadable"
    /\ UNCHANGED <<input, overflow_checks, grid, initial, choices, result, call, pre, ncalls>>

\* main.rs lines 26-27 and solver.rs lines 13-19: the grid moves into the solver
SolverNew ==
    /\ pc = "loaded"
    /\ pc' = "loop"
    /\ initial' = grid
    /\ choices' = <<>>
    /\ UNCHANGED <<input, overflow_checks, grid, result, call, pre, ncalls>>

\* solver.rs lines 22-36: an empty cell is found and values 1..9 are tried
Advance ==
    /\ pc = "loop"
    /\ choose_empty_cell(grid) # NoCell
    /\ LET empty_cell == choose_empty_cell(grid)
           t == TryValues(grid, empty_cell, 1)
       IN  /\ grid' = t.grid
           /\ IF t.chosen # 0
              THEN /\ choices' = Append(choices, <<empty_cell, t.chosen>>)
                   /\ pc' = "loop"
              ELSE /\ choices' = choices
                   /\ pc' = "backtrack"
    /\ UNCHANGED <<input, overflow_checks, initial, result, call, pre, ncalls>>

\* a slip: `break` in place of `return None`, falling through to Some(self.grid)
Exhausted_Break == "Some"

\* solver.rs lines 53-55: the stack is empty, solve returns None
Exhausted == "None"

\* solver.rs lines 40-56: one iteration of the loop 'a
Backtrack ==
    /\ pc = "backtrack"
    /\ IF choices = <<>>
       THEN /\ result' = Exhausted
            /\ pc' = "done"
            /\ UNCHANGED <<grid, choices>>
       ELSE LET last_choice == choices[Len(choices)]
                cell == last_choice[1]
                value == last_choice[2]
                u == unset(grid, cell[1], cell[2])
                t == TryValues(u.grid, cell, value + 1)
            IN  IF u.panic
                THEN /\ pc' = "panic"
                     /\ choices' = SubSeq(choices, 1, Len(choices) - 1)
                     /\ UNCHANGED <<grid, result>>
                ELSE /\ grid' = t.grid
                     /\ result' = result
                     /\ IF t.chosen # 0
                        THEN /\ choices' = Append(SubSeq(choices, 1, Len(choices) - 1),
                                                  <<cell, t.chosen>>)
                             /\ pc' = "loop"
                        ELSE /\ choices' = SubSeq(choices, 1, Len(choices) - 1)
                             /\ pc' = "backtrack"
    /\ UNCHANGED <<input, overflow_checks, initial, call, pre, ncalls>>

\* solver.rs lines 57-64: no empty cell is left
Finish ==
    /\ pc = "loop"
    /\ choose_empty_cell(grid) = NoCell
    /\ result' = IF is_valid(grid) THEN "Some" ELSE "None"
    /\ pc' = "done"
    /\ UNCHANGED <<input, overflow_checks, grid, initial, choices, call, pre, ncalls>>

\* a caller of the grid calls set(row, col, value)
Set(row, col, value) ==
    /\ pc = "loaded"
    /\ ncalls < MaxCalls
    /\ LET r == set(grid, row, col, value)
       IN  /\ grid' = r.grid
           /\ pc' = IF r.panic THEN "panic" ELSE pc
           /\ call' = [op |-> "set", row |-> row, col |-> col, value |-> value,
                       ret |-> r.ret]
    /\ pre' = grid
    /\ ncalls' = ncalls + 1
    /\ UNCHANGED <<input, overflow_checks, initial, choices, result>>

\* a caller of the grid calls unset(row, col)
Unset(row, col) ==
    /\ pc = "loaded"
    /\ ncalls < MaxCalls
    /\ LET r == unset(grid, row, col)
       IN  /\ grid' = r.grid
           /\ pc' = IF r.panic THEN "panic" ELSE pc
           /\ call' = [op |-> "unset", row |-> row, col |-> col, value |-> 0,
                       ret |-> FALSE]
    /\ pre' = grid
    /\ ncalls' = ncalls + 1
    /\ UNCHANGED <<input, overflow_checks, initial, choices, result>>

Next ==
    \/ FromFile
    \/ ReadFails
    \/ SolverNew
    \/ Advance
    \/ Backtrack
    \/ Finish

NextGrid ==
    \/ FromFile
    \/ ReadFails
    \/ \E cell \in CallCells : \E value \in CallDigits : Set(cell[1], cell[2], value)
    \/ \E cell \in CallCells : Unset(cell[1], cell[2])

\* the program: load a puzzle text, then solve it
Spec == Init /\ [][Next]_vars

\* the program has a step to take: ENABLED <<Next>>_vars, written out
Running == pc \in {"start", "loaded", "loop", "backtrack"}

\* weak fairness of Next, WF_vars(Next), with its enabling condition written out
Progress == []<>(~Running) \/ []<><<Next>>_vars

\* the same program, which keeps running while it has a step to take: main is
\* sequential code, nothing suspends it
FairSpec == Spec /\ WF_vars(SolverNew) /\ WF_vars(Finish) /\ Progress

\* a caller of the grid: load a text, then any calls of set and unset
\* the loader alone, on well-formed and malformed texts
NextLoad == FromFile \/ ReadFails

SpecLoad == InitLoad /\ [][NextLoad]_vars

SpecGrid == InitGrid /\ [][NextGrid]_vars

TypeOK ==
    /\ pc \in {"start", "loaded", "unreadable", "err", "panic", "loop", "backtrack", "done"}
    /\ result \in {"Pending", "Some", "None"}
    /\ \A r \in Idx : \A c \in Idx : grid.cells[r][c] \in 0 .. 9
    /\ \A i \in Idx : grid.rows[i] \in 0 .. 65535 /\ grid.cols[i] \in 0 .. 65535
                      /\ grid.squares[i] \in 0 .. 65535

(***************************************************************************)
(* What the claims speak of.                                               *)
(***************************************************************************)
\* two different cells of one row, column or square
Peers(r1, c1, r2, c2) ==
    /\ <<r1, c1>> # <<r2, c2>>
    /\ (r1 = r2 \/ c1 = c2 \/ SquareOf(r1, c1) = SquareOf(r2, c2))

\* no digit twice in a row, column or square of a matrix of cells
ValidCells(cells) ==
    \A r1, c1, r2, c2 \in Idx :
        (Peers(r1, c1, r2, c2) /\ cells[r1][c1] # 0) => cells[r1][c1] # cells[r2][c2]

NoEmptyCell(cells) == \A r, c \in Idx : cells[r][c] # 0

\* v is in no peer of (r, c)
Fits(cells, r, c, v) ==
    \A r2, c2 \in Idx : Peers(r, c, r2, c2) => cells[r2][c2] # v

\* a matrix without a repeated digit can be filled: it is full, or some digit fits
\* one of its empty cells and the matrix with that digit can be filled
RECURSIVE CanFill(_)
CanFill(cells) ==
    LET empty == {k \in 0 .. 80 : cells[k \div 9][k % 9] = 0}
        k == CHOOSE x \in empty : \A y \in empty : x <= y
    IN  IF empty = {} THEN TRUE
        ELSE \E v \in 1 .. 9 :
                /\ Fits(cells, k \div 9, k % 9, v)
                /\ CanFill([cells EXCEPT ![k \div 9][k % 9] = v])

\* the cells have a valid completion
HasCompletion(cells) == ValidCells(cells) /\ CanFill(cells)

SolutionCells == [r \in Idx |-> [c \in Idx |-> ClassicSolution[9 * r + c + 1]]]

\* the nine cells of a square
SquareCells(i) ==
    {<<(i \div 3) * 3 + (k \div 3), (i % 3) * 3 + (k % 3)>> : k \in 0 .. 8}

\* bit v - 1 of a row's, column's or square's mask is set iff a cell of it holds v
OccupancyInvariant(g) ==
    \A i \in Idx : \A v \in 1 .. 9 :
        /\ BitMask_is_set(g.rows[i], v - 1) <=> \E c \in Idx : at(g, i, c) = v
        /\ BitMask_is_set(g.cols[i], v - 1) <=> \E r \in Idx : at(g, r, i) = v
        /\ BitMask_is_set(g.squares[i], v - 1)
               <=> \E rc \in SquareCells(i) : at(g, rc[1], rc[2]) = v

\* v is recorded in the row, the column or the square of (row, col)
Recorded(g, row, col, v) ==
    \/ BitMask_is_set(g.rows[row], v - 1)
    \/ BitMask_is_set(g.cols[col], v - 1)
    \/ BitMask_is_set(g.squares[SquareOf(row, col)], v - 1)

\* the last call was a set that returned true on a cell that was not empty
Overwrote == call.op = "set" /\ call.ret /\ at(pre, call.row, call.col) # 0

\* a line of the text holds the same digit in two columns
DuplicateInRow(text) ==
    \E i \in 1 .. Len(lines(text)) :
        LET cs == trim(lines(text)[i])
        IN  \E j, k \in 1 .. Len(cs) : j < k /\ IsDigitChar(cs[j]) /\ cs[j] = cs[k]

(***************************************************************************)
(* The claims.                                                             *)
(***************************************************************************)
\* C1: when solve has returned and the grid it was given has a valid completion,
\* it returned Some(grid), no cell of the grid is empty and is_valid() is true.
C1_SolvableSolved ==
    (pc = "done" /\ HasCompletion(initial.cells))
        => /\ result = "Some"
           /\ NoEmptyCell(grid.cells)
           /\ is_valid(grid)

\* the all-empty grid was given to solve and came back full
C1_Witness ==
    /\ pc = "done"
    /\ initial = EmptyGrid
    /\ result = "Some"
    /\ Len(choices) = 81

\* C2: when solve has returned on a grid without a valid completion, it returned
\* None; and solve, once started, returns: it neither panics nor loops for ever.
C2_UnsolvableNone ==
    /\ []((pc = "done" /\ ~HasCompletion(initial.cells)) => result = "None")
    /\ [](pc = "loop" => <>(pc = "done"))

\* solve returned None on a grid that has empty cells and no completion
C2_Witness ==
    /\ pc = "done"
    /\ result = "None"
    /\ ~HasCompletion(initial.cells)
    /\ grid = initial
    /\ \E r, c \in Idx : initial.cells[r][c] = 0

\* C3: when the run on the classic puzzle text has ended, it ended with solve
\* returning Some(grid), the grid being the puzzle's solution.
C3_ClassicSolved ==
    (input = ClassicText /\ pc \in {"done", "err", "panic"})
        => /\ pc = "done"
           /\ result = "Some"
           /\ grid.cells = SolutionCells

\* without overflow checks, the run on the classic puzzle text ends with the solution
C3_SolvedWhenWrapping ==
    (input = ClassicText /\ ~overflow_checks /\ pc \in {"done", "err", "panic"})
        => /\ pc = "done"
           /\ result = "Some"
           /\ grid.cells = SolutionCells
           /\ ValidCells(grid.cells)
           /\ \A r, c \in Idx :
                ClassicPuzzle[9 * r + c + 1] # 0
                    => grid.cells[r][c] = ClassicPuzzle[9 * r + c + 1]

\* C4 as claimed: after any calls of set and unset the occupancy invariant holds.
C4_OccupancyAlways == OccupancyInvariant(grid)

\* C4 as amended: the occupancy invariant holds of the loaded grid, and a call of
\* set or unset keeps it unless the call is a set that returned true on a cell that
\* was not empty; so it holds after any calls of which none overwrote a digit.
C4_OccupancyKept ==
    (OccupancyInvariant(pre) /\ ~Overwrote) => OccupancyInvariant(grid)

\* an unset has cleared a digit, other digits are left, and the invariant holds
C4_Witness ==
    /\ call.op = "unset"
    /\ at(pre, call.row, call.col) # 0
    /\ OccupancyInvariant(pre)
    /\ OccupancyInvariant(grid)
    /\ \E r, c \in Idx : at(grid, r, c) # 0
    /\ pc = "loaded"

\* C5: a set(r, c, v) with v in 1..9 recorded in the row, the column or the square
\* of (r, c) returned false and left the cells and the masks as they were.
C5_ConflictRejected ==
    (call.op = "set" /\ call.value \in 1 .. 9
        /\ Recorded(pre, call.row, call.col, call.value))
        => /\ call.ret = FALSE
           /\ grid = pre
           /\ pc # "panic"

\* a set was rejected for a digit recorded in the square alone
C5_Witness ==
    /\ call.op = "set"
    /\ ~call.ret
    /\ grid = pre
    /\ BitMask_is_set(pre.squares[SquareOf(call.row, call.col)], call.value - 1)
    /\ ~BitMask_is_set(pre.rows[call.row], call.value - 1)
    /\ ~BitMask_is_set(pre.cols[call.col], call.value - 1)

\* C6: an unset(r, c) that follows a set(r, c, v), v in 1..9, on a cell that was
\* empty, completes and leaves the grid as it was before the set.
C6_RoundTrip ==
    [][ (/\ call.op = "set"
         /\ call.value \in 1 .. 9
         /\ at(pre, call.row, call.col) = 0
         /\ call'.op = "unset"
         /\ call'.row = call.row
         /\ call'.col = call.col)
        => (grid' = pre /\ pc' # "panic") ]_vars

\* C6 where the set returned true: the unset undoes it
C6_RoundTripOfSuccess ==
    [][ (/\ call.op = "set"
         /\ call.ret
         /\ call.value \in 1 .. 9
         /\ at(pre, call.row, call.col) = 0
         /\ call'.op = "unset"
         /\ call'.row = call.row
         /\ call'.col = call.col)
        => (grid' = pre /\ pc' # "panic") ]_vars

\* C7: an unset of an empty cell completes and leaves the cells and the masks as
\* they were.
C7_UnsetEmptyNoOp ==
    (call.op = "unset" /\ at(pre, call.row, call.col) = 0)
        => (pc # "panic" /\ grid = pre)

\* C8: solve on a grid that is full and valid takes one step: it returns Some of
\* the grid as it was given, with nothing set, unset or pushed.
C8_FullGridReturned ==
    [][ (/\ pc \in {"loop", "backtrack"}
         /\ NoEmptyCell(initial.cells)
         /\ ValidCells(initial.cells))
        => (/\ pc' = "done"
            /\ result' = "Some"
            /\ grid' = initial
            /\ grid' = grid
            /\ choices' = <<>>) ]_vars

\* solve returned a grid that was full when it was given
C8_Witness ==
    /\ pc = "done"
    /\ result = "Some"
    /\ NoEmptyCell(initial.cells)
    /\ grid = initial
    /\ choices = <<>>

\* C9: once solve has started, it eventually returns Some or None.
C9_SolveTerminates ==
    [](pc = "loop" => <>(pc = "done" /\ result \in {"Some", "None"}))

\* solve returned after it had backtracked to an empty stack
C9_Witness ==
    /\ pc = "done"
    /\ result = "None"
    /\ choices = <<>>
    /\ \E r, c \in Idx : initial.cells[r][c] # 0

\* C10: when solve has returned on a text with one digit twice in a line, it
\* returned None.
C10_DuplicateNone ==
    (pc = "done" /\ DuplicateInRow(input)) => result = "None"

(***************************************************************************)
(* What the loader claims speak of.                                        *)
(***************************************************************************)
\* from_file has returned or panicked, and nothing has used the grid yet
Loaded == pc \in {"loaded", "err", "panic"}

\* the character of column j of the trimmed line i of a text, " " where there is none
CharAt(text, i, j) ==
    LET ls == lines(text)
    IN  IF i < Len(ls) /\ j < Len(trim(ls[i + 1])) THEN trim(ls[i + 1])[j + 1] ELSE " "

\* at most nine lines, at most nine characters on a trimmed line, digits and markers only
WellFormed(text) ==
    LET ls == lines(text)
    IN  /\ Len(ls) <= 9
        /\ \A i \in 1 .. Len(ls) :
              /\ Len(trim(ls[i])) <= 9
              /\ \A j \in 1 .. Len(trim(ls[i])) :
                    IsDigitChar(trim(ls[i])[j]) \/ trim(ls[i])[j] \in EmptyMarkers

\* the digit the text gives cell k in row-major order, 0 where it gives none
Given(text) ==
    [k \in 0 .. 80 |->
        LET c == CharAt(text, k \div 9, k % 9) IN IF IsDigitChar(c) THEN to_digit(c) ELSE 0]

\* some digit of the text equals an earlier digit of its row, column or square
HasConflict(text) ==
    LET E == Given(text)
    IN  \E k \in 0 .. 80 : \E m \in 0 .. (k - 1) :
            E[k] # 0 /\ E[m] = E[k] /\ Peers(m \div 9, m % 9, k \div 9, k % 9)

\* a cell holds its given digit if no earlier cell of its row, column or square
\* holds that digit, and is 0 otherwise
HoldsKept(g, text) ==
    LET E == Given(text)
        cell(k) == at(g, k \div 9, k % 9)
    IN  \A k \in 0 .. 80 :
            cell(k) = IF /\ E[k] # 0
                         /\ \A m \in 0 .. (k - 1) :
                               Peers(m \div 9, m % 9, k \div 9, k % 9) => cell(m) # E[k]
                      THEN E[k] ELSE 0

\* every mask of the grid is below 2^9
LowBitsOnly(g) ==
    \A i \in Idx : g.rows[i] < 512 /\ g.cols[i] < 512 /\ g.squares[i] < 512

\* C11: a well-formed text with a digit that conflicts with an earlier digit loads
\* without error; the earlier digit is placed, the conflicting cell is 0 and the
\* masks record exactly the digits that are placed.
C11_ConflictDropped ==
    (Loaded /\ WellFormed(input) /\ HasConflict(input))
        => /\ pc = "loaded"
           /\ HoldsKept(grid, input)
           /\ OccupancyInvariant(grid)

\* the same, for the loads that did not panic on an empty marker
C11_ConflictDroppedUnlessPanic ==
    (Loaded /\ pc # "panic" /\ WellFormed(input) /\ HasConflict(input))
        => /\ pc = "loaded"
           /\ HoldsKept(grid, input)
           /\ OccupancyInvariant(grid)

\* C12: when from_file has returned, it returned Err and no grid for a text with
\* more than nine lines, a trimmed line of more than nine characters or a
\* character that is neither a digit nor an empty marker, and Ok for every other text.
C12_MalformedRejected ==
    Loaded => IF WellFormed(input) THEN pc = "loaded"
              ELSE pc = "err" /\ grid = EmptyGrid

\* the same, for the build without overflow checks
C12_RejectedWhenWrapping ==
    (Loaded /\ ~overflow_checks)
        => IF WellFormed(input) THEN pc = "loaded"
           ELSE pc = "err" /\ grid = EmptyGrid

\* C13: a well-formed text loads without failure, each cell it gives an empty marker
\* is 0 after the load, a text of empty markers alone loads the empty grid, and
\* no mask of a grid that was loaded or is being solved has a bit above bit 8.
C13_MarkersHarmless ==
    /\ (Loaded /\ WellFormed(input))
          => /\ pc = "loaded"
             /\ \A k \in 0 .. 80 :
                   CharAt(input, k \div 9, k % 9) \in EmptyMarkers
                       => at(grid, k \div 9, k % 9) = 0
             /\ (\A k \in 0 .. 80 : Given(input)[k] = 0) => grid = EmptyGrid
    /\ LowBitsOnly(grid)

\* the cells are right after every load that did not panic, whatever the masks
C13_MarkerCellsEmpty ==
    (pc = "loaded")
        => \A k \in 0 .. 80 :
               CharAt(input, k \div 9, k % 9) \in EmptyMarkers
                   => at(grid, k \div 9, k % 9) = 0

(***************************************************************************)
(* What the solver claims speak of.                                        *)
(***************************************************************************)
\* the digits of the row, the column and the square of (r, c)
Seen(cells, r, c) ==
    {cells[r][x] : x \in Idx} \cup {cells[x][c] : x \in Idx}
        \cup {cells[rc[1]][rc[2]] : rc \in SquareCells(SquareOf(r, c))}

\* the step pushes a choice in the outer loop, without a pop
AdvancePush == pc = "loop" /\ pc' = "loop" /\ Len(choices') = Len(choices) + 1

\* C14: a step that pushes a choice in advance mode leaves the stack below it alone,
\* pushes the first empty cell of the grid in row-major order with the smallest
\* digit of 1..9 that is in neither its row, its column nor its square, and
\* writes that digit to that cell and nothing else.
C14_AdvanceOrder ==
    [][AdvancePush =>
        LET top == choices'[Len(choices')]
            r == top[1][1]
            c == top[1][2]
            v == top[2]
        IN  /\ choices' = Append(choices, top)
            /\ at(grid, r, c) = 0
            /\ \A k \in 0 .. (9 * r + c - 1) : at(grid, k \div 9, k % 9) # 0
            /\ v \in (1 .. 9) \ Seen(grid.cells, r, c)
            /\ \A w \in 1 .. (v - 1) : w \in Seen(grid.cells, r, c)
            /\ grid'.cells = [grid.cells EXCEPT ![r][c] = v]]_vars

\* from the empty grid, 1 went to (0, 0) and then 2, not 1, to (0, 1)
C14_Witness ==
    /\ pc = "loop"
    /\ initial = EmptyGrid
    /\ choices = << <<<<0, 0>>, 1>>, <<<<0, 1>>, 2>> >>

\* C15: a step of the backtracking loop with a choice <<cell, v>> on top of the
\* stack pops it and leaves the choices below it alone; if some digit of v+1..9 is
\* in neither the row, the column nor the square of the cleared cell, the smallest
\* such digit is written to the cell and pushed with it and the outer loop goes on;
\* otherwise the cell is left empty and the next choice down is popped next.
C15_BacktrackOrder ==
    [][(pc = "backtrack" /\ choices # <<>>) =>
        LET top == choices[Len(choices)]
            r == top[1][1]
            c == top[1][2]
            v == top[2]
            below == SubSeq(choices, 1, Len(choices) - 1)
            cleared == [grid.cells EXCEPT ![r][c] = 0]
            free == ((v + 1) .. 9) \ Seen(cleared, r, c)
        IN  /\ at(grid, r, c) = v
            /\ IF free # {}
               THEN LET w == CHOOSE x \in free : \A y \in free : x <= y
                    IN  /\ w > v
                        /\ choices' = Append(below, <<top[1], w>>)
                        /\ grid'.cells = [grid.cells EXCEPT ![r][c] = w]
                        /\ pc' = "loop"
               ELSE /\ choices' = below
                    /\ grid'.cells = cleared
                    /\ pc' = "backtrack"]_vars

\* a choice was popped and nothing above its value could be placed: the loop is
\* about to pop the next choice down, and the first empty cell is one a digit fits
C15_Witness ==
    /\ pc = "backtrack"
    /\ choices # <<>>
    /\ LET e == choose_empty_cell(grid)
       IN  e # NoCell /\ (1 .. 9) \ Seen(grid.cells, e[1], e[2]) # {}

\* the cells that were empty when solve began and are not empty now
FilledSince == {rc \in Idx \X Idx : at(initial, rc[1], rc[2]) = 0 /\ at(grid, rc[1], rc[2]) # 0}

\* C16: at the top of every iteration of the outer loop the stack has exactly one
\* entry for each cell that was empty in the initial grid and is not empty now,
\* each entry's value is the value of its cell, and the entries are in strictly
\* increasing row-major order of their cells from bottom to top.
C16_StackMatchesGrid ==
    (pc = "loop")
        => /\ {choices[k][1] : k \in 1 .. Len(choices)} = FilledSince
           /\ Len(choices) = Cardinality(FilledSince)
           /\ \A k \in 1 .. Len(choices) :
                 at(grid, choices[k][1][1], choices[k][1][2]) = choices[k][2]
           /\ \A k \in 1 .. (Len(choices) - 1) :
                 9 * choices[k][1][1] + choices[k][1][2]
                     < 9 * choices[k + 1][1][1] + choices[k + 1][1][2]

\* the loop is at its top on a grid that was given digits, with two or more
\* choices on the stack, the lowest not the digit 1
C16_Witness ==
    /\ pc = "loop"
    /\ Len(choices) >= 2
    /\ choices[1][2] > 1
    /\ \E rc \in Idx \X Idx : at(initial, rc[1], rc[2]) # 0

\* C17: whenever the outer loop finds no empty cell, is_valid() is true of the
\* grid, so solve returns None only with an empty stack and an empty cell left.
C17_FullImpliesValid ==
    /\ (pc = "loop" /\ NoEmptyCell(grid.cells)) => is_valid(grid)
    /\ (pc = "done" /\ result = "None") => (choices = <<>> /\ ~NoEmptyCell(grid.cells))

\* the search filled the last empty cell and the loop is about to scan the grid
C17_Witness ==
    /\ pc = "loop"
    /\ NoEmptyCell(grid.cells)
    /\ Len(choices) >= 9

\* solve is running or has returned
InSolve == pc \in {"loop", "backtrack", "done"}

\* the cells the step changes
Changed == {rc \in Idx \X Idx : at(grid, rc[1], rc[2]) # at(grid', rc[1], rc[2])}

\* the cells on a stack of choices
StackCells(s) == {s[k][1] : k \in 1 .. Len(s)}

\* C18: during solve, a step of the outer loop writes only to a cell that is empty,
\* a step of the backtracking loop unsets a cell that is not empty, does not panic
\* and writes to no other cell, and the masks keep recording exactly the digits of
\* the cells: bit v-1 of a row's, column's or square's mask is set iff the digit v
\* is in it, in the grid solve is given and after every step.
C18_ClearBeforeOverwrite ==
    /\ [](InSolve => OccupancyInvariant(grid))
    /\ [][(pc = "loop") =>
            /\ \A rc \in Changed : at(grid, rc[1], rc[2]) = 0
            /\ Cardinality(Changed) <= 1]_vars
    /\ [][(pc = "backtrack" /\ choices # <<>>) =>
            LET cell == choices[Len(choices)][1]
            IN  /\ at(grid, cell[1], cell[2]) # 0
                /\ pc' # "panic"
                /\ Changed \subseteq {cell}]_vars

\* the top choice is not the smallest digit that fits its cell: it was placed
\* after a pop and an unset, and the masks still record the cells
C18_Witness ==
    /\ pc = "loop"
    /\ choices # <<>>
    /\ LET top == choices[Len(choices)]
           cleared == [grid.cells EXCEPT ![top[1][1]][top[1][2]] = 0]
       IN  \E u \in 1 .. (top[2] - 1) : u \notin Seen(cleared, top[1][1], top[1][2])
    /\ OccupancyInvariant(grid)

\* C19: during solve and in the grid it returns, every cell that was not empty in
\* the initial grid holds its initial value, and a step changes only cells that
\* are on the choice stack before or after it.
C19_GivensKept ==
    /\ [](InSolve =>
            \A rc \in Idx \X Idx :
                at(initial, rc[1], rc[2]) # 0
                    => at(grid, rc[1], rc[2]) = at(initial, rc[1], rc[2]))
    /\ [][(pc \in {"loop", "backtrack"}) =>
            Changed \subseteq (StackCells(choices) \cup StackCells(choices'))]_vars

\* solve returned a full grid for a grid with given digits and empty cells
C19_Witness ==
    /\ pc = "done"
    /\ result = "Some"
    /\ \E rc \in Idx \X Idx : at(initial, rc[1], rc[2]) # 0
    /\ \E rc \in Idx \X Idx : at(initial, rc[1], rc[2]) = 0 /\ at(grid, rc[1], rc[2]) # 0

\* the matrix that has the cells of a before position k of the row-major order
\* and the cells of b from position k on
Spliced(a, b, k) ==
    [r \in Idx |-> [c \in Idx |-> IF 9 * r + c < k THEN a[r][c] ELSE b[r][c]]]

\* full is a valid completion of cells
Completes(full, cells) ==
    /\ NoEmptyCell(full)
    /\ ValidCells(full)
    /\ \A r, c \in Idx : cells[r][c] # 0 => full[r][c] = cells[r][c]

\* no valid completion of cells agrees with full up to some empty cell of cells
\* and has a smaller digit there
NoSmallerCompletion(full, cells) ==
    \A k \in 0 .. 80 :
        cells[k \div 9][k % 9] = 0 =>
            \A w \in 1 .. (full[k \div 9][k % 9] - 1) :
                LET before == Spliced(full, cells, k)
                IN  w \notin Seen(before, k \div 9, k % 9)
                        => ~CanFill([before EXCEPT ![k \div 9][k % 9] = w])

\* C20: the grid solve returns is a valid completion of the initial grid and is
\* the smallest of them when the 81 cells are compared in row-major order, so
\* the grid returned is determined by the initial grid.
C20_SmallestCompletion ==
    (pc = "done" /\ result = "Some")
        => /\ Completes(grid.cells, initial.cells)
           /\ NoSmallerCompletion(grid.cells, initial.cells)

\* solve returned a completion of a grid with given digits that the classic
\* solution completes too, and it is not the classic solution
C20_Witness ==
    /\ pc = "done"
    /\ result = "Some"
    /\ initial # EmptyGrid
    /\ Completes(SolutionCells, initial.cells)
    /\ grid.cells # SolutionCells

=============================================================================
